---- MODULE Spec2Model ----
(***************************************************************************)
(* Model of umake.network.requirements_handler.RequirementsHandler: the    *)
(* bucket evaluators, the single-worker install queue, the privileged      *)
(* transaction and the result dispatcher (_on_done).                       *)
(*                                                                         *)
(* A package specifier string is modelled by its parse: the sequence of    *)
(* its ' | '-separated alternatives, each a [name, arch] pair; arch = ""   *)
(* when the alternative has no ":arch" suffix.  A bucket is a sequence of  *)
(* specifiers (a Python list, mutated in place by the evaluators).         *)
(* Specifier strings hold at most one ':' (split(":", -1) unpacks two).    *)
(***************************************************************************)
EXTENDS Integers, Sequences, FiniteSets, TLC

\* no probe output: None, written as the empty text (lines 153 and 164 test
\* `not self.jre_installed_version`, which holds of both); for a command, that it
\* is missing
None == << >>

Alt(n, a) == [name |-> n, arch |-> a]

\* the specifier string "n"
Plain(n) == << Alt(n, "") >>

\* get_current_arch() of umake.tools: the host architecture
CurrentArch == "amd64"

\* ' | ' in pkg_name
IsAlternation(s) == Len(s) > 1

\* ":" in pkg_name
HasArch(s) == \E i \in 1..Len(s) : s[i].arch /= ""

\* (pkg_without_arch_name, arch) = pkg_name.split(":", -1) on a string with one
\* ':'.  For a single alternative this is (name, arch).  For an unresolved
\* alternation the split is textual: with the ':' in the last alternative the
\* arch is that alternative's arch; otherwise the "arch" is the rest of the
\* string ("arch | b ..."), which equals no architecture ("?").
SplitArch(s) ==
    IF Len(s) = 1
    THEN [without |-> Plain(s[1].name), arch |-> s[1].arch]
    ELSE IF s[Len(s)].arch /= ""
         THEN [without |-> [s EXCEPT ![Len(s)] = Alt(s[Len(s)].name, "")],
               arch |-> s[Len(s)].arch]
         ELSE [without |-> s, arch |-> "?"]

\* pkg_name in self.cache: only a single package name can be a key of the cache
InCache(s, cache) == Len(s) = 1 /\ s[1] \in cache.pkgs

\* self.cache[pkg_name].is_installed
IsInstalled(s, cache) == s[1] \in cache.installed

\* self.cache[pkg_name].is_upgradable
IsUpgradable(s, cache) == s[1] \in cache.upgradable

\* bucket.remove(pkg_name): drops the first element equal to x
RECURSIVE RemoveFirst(_, _)
RemoveFirst(seq, x) ==
    IF seq = << >> THEN << >>
    ELSE IF Head(seq) = x THEN Tail(seq)
    ELSE << Head(seq) >> \o RemoveFirst(Tail(seq), x)

(***************************************************************************)
(* check_java_equiv.  A version string is the sequence of its characters:  *)
(* a digit d is d, '.' is -1 ('.' sorts before every digit, as in ASCII).  *)
(***************************************************************************)
OpenJdkNames == {"openjdk-8-jre", "openjdk-11-jre", "openjdk-8-jdk", "openjdk-11-jdk"}

\* re.search(r"openjdk-(\d+)-(j\w\w)", name): groups 1 and 2
JavaRegex(name) ==
    CASE name = "openjdk-8-jre"  -> [version |-> << 8 >>,    release |-> "jre"]
      [] name = "openjdk-11-jre" -> [version |-> << 1, 1 >>, release |-> "jre"]
      [] name = "openjdk-8-jdk"  -> [version |-> << 8 >>,    release |-> "jdk"]
      [] name = "openjdk-11-jdk" -> [version |-> << 1, 1 >>, release |-> "jdk"]

\* "openjdk" in pkg_name
IsOpenJdk(s) == \E i \in 1..Len(s) : s[i].name \in OpenJdkNames

\* the regex search takes the first match of the string
FirstOpenJdk(s) ==
    LET i == CHOOSE k \in 1..Len(s) :
                 /\ s[k].name \in OpenJdkNames
                 /\ \A j \in 1..(k - 1) : s[j].name \notin OpenJdkNames
    IN  s[i].name

\* Python's str < str: lexicographic on the characters
RECURSIVE StrLess(_, _)
StrLess(a, b) ==
    IF b = << >> THEN FALSE
    ELSE IF a = << >> THEN TRUE
    ELSE IF a[1] < b[1] THEN TRUE
    ELSE IF a[1] > b[1] THEN FALSE
    ELSE StrLess(Tail(a), Tail(b))

\* installed_version >= required_version (line 171)
VersionSatisfies(installed, required) == ~StrLess(installed, required)

\* js = [jre, jdk, pjava, pjavac]: the two cached probe outputs of the handler and
\* the number of times each probing command was run; env = what the commands
\* print (the version text the regexes extract), None when the binary is missing.
CheckJavaEquiv(s, env, js) ==
    LET req == JavaRegex(FirstOpenJdk(s))
    IN  IF req.release = "jre"
        THEN IF js.jre = None
             THEN IF env.java = None
                  THEN [ret |-> FALSE, js |-> [js EXCEPT !.pjava = @ + 1]]
                  ELSE [ret |-> VersionSatisfies(env.java, req.version),
                        js  |-> [js EXCEPT !.jre = env.java, !.pjava = @ + 1]]
             ELSE [ret |-> VersionSatisfies(js.jre, req.version), js |-> js]
        ELSE IF js.jdk = None
             THEN IF env.javac = None
                  THEN [ret |-> FALSE, js |-> [js EXCEPT !.pjavac = @ + 1]]
                  ELSE [ret |-> VersionSatisfies(env.javac, req.version),
                        js  |-> [js EXCEPT !.jdk = env.javac, !.pjavac = @ + 1]]
             ELSE [ret |-> VersionSatisfies(js.jdk, req.version), js |-> js]

(***************************************************************************)
(* is_bucket_available.  E = [cache, foreign, java]: the cache handle, the  *)
(* enabled foreign architectures and the java environment.                 *)
(***************************************************************************)
\* AvailableOne without the relaxation of lines 103-108: a specifier of a
\* foreign architecture that is not enabled counts as unavailable
AvailableOneStrict(pkg, E, js) ==
    IF InCache(pkg, E.cache) THEN [ok |-> TRUE, js |-> js]
    ELSE IF /\ HasArch(pkg)
            /\ SplitArch(pkg).arch = CurrentArch /\ InCache(SplitArch(pkg).without, E.cache)
         THEN [ok |-> TRUE, js |-> js]
         ELSE IF IsOpenJdk(pkg)
              THEN LET j == CheckJavaEquiv(pkg, E.java, js)
                   IN  [ok |-> j.ret, js |-> j.js]
              ELSE [ok |-> FALSE, js |-> js]

\* lines 95-114 for one pkg_name: ok is FALSE when all_in_cache is cleared
AvailableOne(pkg, E, js) ==
    IF InCache(pkg, E.cache) THEN [ok |-> TRUE, js |-> js]
    ELSE IF /\ HasArch(pkg)
            /\ \/ SplitArch(pkg).arch = CurrentArch /\ InCache(SplitArch(pkg).without, E.cache)
               \/ SplitArch(pkg).arch \notin E.foreign
         THEN [ok |-> TRUE, js |-> js]
         ELSE IF IsOpenJdk(pkg)
              THEN LET j == CheckJavaEquiv(pkg, E.java, js)
                   IN  [ok |-> j.ret, js |-> j.js]
              ELSE [ok |-> FALSE, js |-> js]

\* for package in pkg_name.split(' | '): if self.is_bucket_available([package]): ... break
\* from alternative k on; found = 0 when no alternative is available
RECURSIVE FirstAvailable(_, _, _, _)
FirstAvailable(pkg, k, E, js) ==
    IF k > Len(pkg) THEN [found |-> 0, js |-> js]
    ELSE LET r == AvailableOne(<< pkg[k] >>, E, js)
         IN  IF r.ok THEN [found |-> k, js |-> r.js]
             ELSE FirstAvailable(pkg, k + 1, E, r.js)

\* ResolveAvailable without bucket.remove(pkg_name): the alternative is
\* appended and the alternation stays in the list
ResolveAvailableNoRemove(bucket, i, E, js) ==
    LET pkg == bucket[i]
        r == IF IsAlternation(pkg) THEN FirstAvailable(pkg, 1, E, js)
             ELSE [found |-> 0, js |-> js]
    IN  IF r.found = 0
        THEN [bucket |-> bucket, pkg |-> pkg, js |-> r.js]
        ELSE [bucket |-> Append(bucket, << pkg[r.found] >>),
              pkg |-> << pkg[r.found] >>, js |-> r.js]

\* lines 88-94 / 124-130: the alternation of bucket[i] resolved in place
ResolveAvailable(bucket, i, E, js) ==
    LET pkg == bucket[i]
        r == IF IsAlternation(pkg) THEN FirstAvailable(pkg, 1, E, js)
             ELSE [found |-> 0, js |-> js]
    IN  IF r.found = 0
        THEN [bucket |-> bucket, pkg |-> pkg, js |-> r.js]
        ELSE [bucket |-> Append(RemoveFirst(bucket, pkg), << pkg[r.found] >>),
              pkg |-> << pkg[r.found] >>, js |-> r.js]

\* the for loop of is_bucket_available from index i on (a Python list iterator
\* reads bucket[i] of the list as it is then)
RECURSIVE AvailableLoop(_, _, _, _, _)
AvailableLoop(bucket, i, ret, E, js) ==
    IF i > Len(bucket) THEN [ret |-> ret, bucket |-> bucket, js |-> js]
    ELSE LET r == ResolveAvailable(bucket, i, E, js)
             a == AvailableOne(r.pkg, E, r.js)
         IN  AvailableLoop(r.bucket, i + 1, ret /\ a.ok, E, a.js)

IsBucketAvailable(bucket, E, js) == AvailableLoop(bucket, 1, TRUE, E, js)

(***************************************************************************)
(* is_bucket_uptodate                                                      *)
(***************************************************************************)
\* lines 133-136: "x:<current arch>" is looked up as "x"
StripCurrentArch(pkg) ==
    IF HasArch(pkg) /\ SplitArch(pkg).arch = CurrentArch
    THEN SplitArch(pkg).without
    ELSE pkg

\* UptodateOne with the `not` of line 137 lost: an installed package counts as
\* not installed
UptodateOneInverted(pkg, ret, E, js) ==
    LET r1 == IF ~InCache(pkg, E.cache) \/ IsInstalled(pkg, E.cache) THEN FALSE
              ELSE IF IsUpgradable(pkg, E.cache) THEN FALSE
              ELSE ret
    IN  IF IsOpenJdk(pkg)
        THEN LET j == CheckJavaEquiv(pkg, E.java, js)
             IN  [ret |-> IF j.ret THEN TRUE ELSE r1, js |-> j.js]
        ELSE [ret |-> r1, js |-> js]

\* lines 137-144 for one pkg_name, ret being is_installed_and_uptodate so far
UptodateOne(pkg, ret, E, js) ==
    LET r1 == IF ~InCache(pkg, E.cache) \/ ~IsInstalled(pkg, E.cache) THEN FALSE
              ELSE IF IsUpgradable(pkg, E.cache) THEN FALSE
              ELSE ret
    IN  IF IsOpenJdk(pkg)
        THEN LET j == CheckJavaEquiv(pkg, E.java, js)
             IN  [ret |-> IF j.ret THEN TRUE ELSE r1, js |-> j.js]
        ELSE [ret |-> r1, js |-> js]

RECURSIVE UptodateLoop(_, _, _, _, _)
UptodateLoop(bucket, i, ret, E, js) ==
    IF i > Len(bucket) THEN [ret |-> ret, bucket |-> bucket, js |-> js]
    ELSE LET r == ResolveAvailable(bucket, i, E, js)
             u == UptodateOne(StripCurrentArch(r.pkg), ret, E, r.js)
         IN  UptodateLoop(r.bucket, i + 1, u.ret, E, u.js)

IsBucketUptodate(bucket, E, js) == UptodateLoop(bucket, 1, TRUE, E, js)

(***************************************************************************)
(* is_bucket_installed                                                     *)
(***************************************************************************)
\* InstalledOne with line 76 testing membership alone: a package of the cache
\* counts as installed
InstalledOneInCacheOnly(pkg, ret, E, js) ==
    IF ~InCache(pkg, E.cache)
    THEN IF IsOpenJdk(pkg)
         THEN LET j == CheckJavaEquiv(pkg, E.java, js)
              IN  [ret |-> j.ret, js |-> j.js]
         ELSE [ret |-> FALSE, js |-> js]
    ELSE [ret |-> ret, js |-> js]

\* lines 76-81 for one pkg_name, ret being is_installed so far (line 78 assigns
\* the result of check_java_equiv to is_installed)
InstalledOne(pkg, ret, E, js) ==
    IF ~InCache(pkg, E.cache) \/ ~IsInstalled(pkg, E.cache)
    THEN IF IsOpenJdk(pkg)
         THEN LET j == CheckJavaEquiv(pkg, E.java, js)
              IN  [ret |-> j.ret, js |-> j.js]
         ELSE [ret |-> FALSE, js |-> js]
    ELSE [ret |-> ret, js |-> js]

\* for package in pkg_name.split(' | '): if self.is_bucket_installed([package]): ... break
\* from alternative k on; found = 0 when no alternative is installed
RECURSIVE FirstInstalled(_, _, _, _)
FirstInstalled(pkg, k, E, js) ==
    IF k > Len(pkg) THEN [found |-> 0, js |-> js]
    ELSE LET r == InstalledOne(StripCurrentArch(<< pkg[k] >>), TRUE, E, js)
         IN  IF r.ret THEN [found |-> k, js |-> r.js]
             ELSE FirstInstalled(pkg, k + 1, E, r.js)

\* lines 63-69: the alternation of bucket[i] resolved in place
ResolveInstalled(bucket, i, E, js) ==
    LET pkg == bucket[i]
        r == IF IsAlternation(pkg) THEN FirstInstalled(pkg, 1, E, js)
             ELSE [found |-> 0, js |-> js]
    IN  IF r.found = 0
        THEN [bucket |-> bucket, pkg |-> pkg, js |-> r.js]
        ELSE [bucket |-> Append(RemoveFirst(bucket, pkg), << pkg[r.found] >>),
              pkg |-> << pkg[r.found] >>, js |-> r.js]

RECURSIVE InstalledLoop(_, _, _, _, _)
InstalledLoop(bucket, i, ret, E, js) ==
    IF i > Len(bucket) THEN [ret |-> ret, bucket |-> bucket, js |-> js]
    ELSE LET r == ResolveInstalled(bucket, i, E, js)
             u == InstalledOne(StripCurrentArch(r.pkg), ret, E, r.js)
         IN  InstalledLoop(r.bucket, i + 1, u.ret, E, u.js)

IsBucketInstalled(bucket, E, js) == InstalledLoop(bucket, 1, TRUE, E, js)

(***************************************************************************)
(* The handler, its executor and the threads that use it                   *)
(***************************************************************************)
\* install_bucket calls made in one run
MaxTasks == 2

Tasks == 1..MaxTasks

\* the threads that call install_bucket
Callers == {"c1", "c2"}

\* the single thread of ThreadPoolExecutor(max_workers=1)
Worker == "worker"

Threads == Callers \cup {Worker}

\* packages the archive offers for the native architecture, and for any enabled
\* foreign architecture
NativePkgs == {Alt("a", ""), Alt("u", ""), Alt("c", ""), Alt("openjdk-8-jre", "")}
ForeignNames == {"f"}

\* what the package lists hold once `archs` are enabled and the lists updated
Repo(archs) == NativePkgs \cup {Alt(n, a) : n \in ForeignNames, a \in archs}

\* the buckets the callers pass: one that is up to date from the start, one that
\* needs a foreign architecture, an install and an upgrade, and one whose second
\* specifier is no package of the archive
BucketChoices ==
    { << Plain("a") >>,
      << << Alt("f", "armhf") >>, Plain("u") >>,
      << Plain("u"), Plain("n") >> }

\* STATUS_DOWNLOADING, STATUS_INSTALLING = range(2)
STATUS_DOWNLOADING == 0
STATUS_INSTALLING == 1

NoExc == [kind |-> "none", pkg |-> << >>]
NullError == [null |-> TRUE, msg |-> NoExc, sub |-> 0]
NoFuture == [state |-> "none", exc |-> NoExc, registered |-> FALSE]
NoOnDone == [pc |-> "none", task |-> 0, error |-> NullError]

\* _on_done(future) starts on a thread.  Lines 255-256 read the future alone, so
\* without an exception the first shared access is line 266.
StartOnDone(t, exc) ==
    [pc |-> IF exc.kind = "none" THEN "remove" ELSE "build", task |-> t,
     error |-> NullError]

VARIABLES
    cache,          \* self.cache: the apt.Cache handle, with the marks staged on it
    db,             \* the system: package lists, installed and upgradable packages
    foreign_archs,  \* get_foreign_archs()
    java_env,       \* what `java -version` / `javac -version` print (None: missing)
    jstate,         \* self.jre_installed_version, self.jdk_installed_version, probe counts
    queue,          \* the executor's work queue (task ids, FIFO)
    ntasks,         \* futures created so far; a task is named by its submission rank
    tag_bucket,     \* the bucket list of each task (bucket_pack["bucket"])
    fut,            \* each future: state, exception, whether _on_done is registered
    apt_fd,         \* self.apt_fd: the exchange file last created (a task id; 0: unset)
    files,          \* the exchange files on disk: "none", "empty" or "out"
    wpc, wtask,     \* the worker's position and the task it runs
    cpc,            \* each caller's position inside install_bucket
    cbucket,        \* the bucket a caller passed
    pkg_to_install, \* install_bucket's local
    ctask,          \* the future a caller created
    od,             \* each thread's running _on_done: position, future, error so far
    log,            \* per task: the package-manager calls its run made, in order
    outcome,        \* per task: how its worker run ended
    wrote,          \* per task: whether its apply step wrote to the exchange file
    ncb,            \* per task: invocations of installed_callback
    cb_order,       \* tasks in the order their installed_callback was invoked
    result,         \* per task: the error of the delivered RequirementsResult
    returned,       \* per task: << >>, then << b >> once install_bucket has returned b
    ceval,          \* per caller: what held of its bucket when line 189 evaluated it
    at_call,        \* per task: ceval of the call that created it
    db_start,       \* the system as it was when the worker took its current task
    ev_bucket,      \* the bucket list a caller passes to the evaluators (mutated in place)
    ev_log,         \* the evaluator calls made on ev_bucket, in order
    reports,        \* the reports passed to progress_callback, in order
    euid,           \* the effective user of the process that holds the handler
    child,          \* per task: the standard streams of the forked child of its commit
    lock_held,      \* cache.open() calls that will still fail: another process holds the lock
    submitted,      \* per task: the bucket as it was when executor.submit queued it
    progress        \* per task: the calls of its progress_callback, in order

vars == << cache, db, foreign_archs, java_env, jstate, queue, ntasks, tag_bucket, fut,
           apt_fd, files, wpc, wtask, cpc, cbucket, pkg_to_install, ctask, od,
           log, outcome, wrote, ncb, cb_order, result, returned, ceval, at_call,
           db_start, ev_bucket, ev_log, reports, euid, child, lock_held, submitted,
           progress >>

sysvars == << cache, db, foreign_archs, java_env, jstate >>
obsvars == << log, outcome, wrote, ncb, cb_order, result, returned >>
histvars == << ceval, at_call, db_start >>
evalvars == << ev_bucket, ev_log, reports >>
procvars == << euid, child, lock_held, submitted, progress >>

\* every specifier of the bucket names a package that is installed and not upgradable
Satisfied(bucket, c) ==
    \A i \in 1..Len(bucket) :
        /\ InCache(bucket[i], c)
        /\ IsInstalled(bucket[i], c)
        /\ ~IsUpgradable(bucket[i], c)

NoEval == [uptodate |-> FALSE, satisfied |-> FALSE]

\* self.cache.open(): the handle re-reads the system; staged marks are dropped
Reload(d) ==
    [pkgs |-> d.pkgs, installed |-> d.installed, upgradable |-> d.upgradable,
     mark_install |-> {}, mark_upgrade |-> {}]

\* _force_reload_apt_cache when cache.open() succeeds
ForceReloadAptCache(d) == Reload(d)

\* the depth of Python's call stack left to _force_reload_apt_cache
\* (sys.getrecursionlimit(), scaled down)
RecursionLimit == 2

\* lines 271-275: each cache.open() that raises SystemError is answered, after
\* time.sleep(1), by a nested call of _force_reload_apt_cache; when `held` opens in
\* a row fail, the nesting reaches the recursion limit and RecursionError, which
\* `except SystemError` does not catch, leaves _force_reload_apt_cache
ForceReloadRaises(held) == held >= RecursionLimit

\* the failing opens left once _force_reload_apt_cache is over
LockHeldAfter(held) == IF ForceReloadRaises(held) THEN held - RecursionLimit ELSE 0

\* the exception of a task whose reload ran out of stack
ReloadExc == [kind |-> "reload", pkg |-> << >>]

\* the effective user of the process: the invoking user, or root inside
\* `with as_root():` (umake.tools)
User == "user"
AsRoot == "root"

\* the standard streams of a child: none forked yet
NoChild == [stdin |-> "none", stdout |-> "none", stderr |-> "none"]

\* fork, lines 364-373, in the child of task t: stdin is /dev/null; os.open of the
\* exchange file (no O_CREAT) raises FileNotFoundError when the file is gone, and
\* stdout and stderr stay the ones inherited from the parent
ForkChild(t, fs) ==
    IF fs[t] = "none"
    THEN [stdin |-> "devnull", stdout |-> "inherited", stderr |-> "inherited"]
    ELSE [stdin |-> "devnull", stdout |-> "exchange", stderr |-> "exchange"]

Env == [cache |-> cache, foreign |-> foreign_archs, java |-> java_env]

Call(op, arg) == [op |-> op, arg |-> arg]

Ops(t) == {log[t][i].op : i \in 1..Len(log[t])}

\* the handler after __init__ with nothing submitted: no cached probe output
\* (lines 53-54), an empty executor queue, no exchange file
IdleHandler ==
    /\ jstate = [jre |-> None, jdk |-> None, pjava |-> 0, pjavac |-> 0]
    /\ queue = << >>
    /\ ntasks = 0
    /\ tag_bucket = [t \in Tasks |-> << >>]
    /\ fut = [t \in Tasks |-> NoFuture]
    /\ apt_fd = 0
    /\ files = [t \in Tasks |-> "none"]
    /\ wpc = "idle"
    /\ wtask = 0
    /\ cpc = [c \in Callers |-> "idle"]
    /\ cbucket = [c \in Callers |-> << >>]
    /\ pkg_to_install = [c \in Callers |-> FALSE]
    /\ ctask = [c \in Callers |-> 0]
    /\ od = [th \in Threads |-> NoOnDone]
    /\ log = [t \in Tasks |-> << >>]
    /\ outcome = [t \in Tasks |-> "none"]
    /\ wrote = [t \in Tasks |-> FALSE]
    /\ ncb = [t \in Tasks |-> 0]
    /\ cb_order = << >>
    /\ result = [t \in Tasks |-> NullError]
    /\ returned = [t \in Tasks |-> << >>]
    /\ ceval = [c \in Callers |-> NoEval]
    /\ at_call = [t \in Tasks |-> NoEval]
    /\ euid = User
    /\ child = [t \in Tasks |-> NoChild]
    /\ submitted = [t \in Tasks |-> << >>]
    /\ progress = [t \in Tasks |-> << >>]

\* the packages of the system the handler is constructed on: a is installed and
\* up to date, u is installed with an upgrade pending, the others are not
\* installed
InitPackages ==
    /\ db = [pkgs |-> Repo({}), installed |-> {Alt("a", ""), Alt("u", "")},
             upgradable |-> {Alt("u", "")}]
    /\ cache = Reload(db)
    /\ foreign_archs = {}
    /\ IdleHandler
    /\ db_start = db
    /\ ev_bucket = << >>
    /\ ev_log = << >>
    /\ reports = << >>

\* a system with no java command
InitSystem == InitPackages /\ java_env = [java |-> None, javac |-> None]

\* no other process holds the package database lock
Init == InitSystem /\ lock_held = 0

(***************************************************************************)
(* install_bucket, on the calling thread                                   *)
(***************************************************************************)
\* line 189: pkg_to_install = not self.is_bucket_uptodate(bucket)
PkgToInstall(uptodate) == ~uptodate

\* ReturnValue with the bucket evaluated again when install_bucket returns
ReturnValueAtReturn(c) == ~IsBucketUptodate(cbucket[c], Env, jstate).ret

\* line 194: return pkg_to_install
ReturnValue(c) == pkg_to_install[c]

\* lines 182-189: the bucket is evaluated on the calling thread, against the
\* cache as it is then
InstallBucketEvaluate(c, b) ==
    /\ cpc[c] = "idle"
    /\ ntasks + Cardinality({d \in Callers : cpc[d] = "submit"}) < MaxTasks
    /\ LET r == IsBucketUptodate(b, Env, jstate)
       IN  /\ cbucket' = [cbucket EXCEPT ![c] = r.bucket]
           /\ pkg_to_install' = [pkg_to_install EXCEPT ![c] = PkgToInstall(r.ret)]
           /\ jstate' = r.js
           /\ ceval' = [ceval EXCEPT ![c] = [uptodate |-> r.ret,
                                             satisfied |-> Satisfied(b, cache)]]
    /\ cpc' = [cpc EXCEPT ![c] = "submit"]
    /\ UNCHANGED << evalvars, procvars, cache, db, foreign_archs, java_env, queue, ntasks, tag_bucket, fut,
                    apt_fd, files, wpc, wtask, ctask, od, obsvars, at_call, db_start >>

\* lines 191-192: executor.submit queues the work item and creates its future
Submit(c) ==
    /\ cpc[c] = "submit"
    /\ LET t == ntasks + 1
       IN  /\ ntasks' = t
           /\ queue' = Append(queue, t)
           /\ fut' = [fut EXCEPT ![t] = [NoFuture EXCEPT !.state = "pending"]]
           /\ tag_bucket' = [tag_bucket EXCEPT ![t] = cbucket[c]]
           /\ ctask' = [ctask EXCEPT ![c] = t]
           /\ at_call' = [at_call EXCEPT ![t] = ceval[c]]
           /\ submitted' = [submitted EXCEPT ![t] = cbucket[c]]
    /\ cpc' = [cpc EXCEPT ![c] = "register"]
    /\ UNCHANGED << evalvars, euid, child, lock_held, progress, sysvars, apt_fd, files, wpc, wtask, cbucket, pkg_to_install, od,
                    obsvars, ceval, db_start >>

\* AddDoneCallback that waits for the future to finish before it registers
AddDoneCallbackWaits(c) ==
    /\ cpc[c] = "register"
    /\ fut[ctask[c]].state = "finished"
    /\ od' = [od EXCEPT ![c] = StartOnDone(ctask[c], fut[ctask[c]].exc)]
    /\ cpc' = [cpc EXCEPT ![c] = "on_done"]
    /\ UNCHANGED << evalvars, procvars, sysvars, queue, ntasks, tag_bucket, fut, apt_fd,
                    files, wpc, wtask, cbucket, pkg_to_install, ctask, obsvars, histvars >>

\* line 193: future.add_done_callback(self._on_done).  On a future that is not
\* finished the callback is kept for the worker and install_bucket returns; on a
\* finished one the callback runs at once, on the calling thread.
AddDoneCallback(c) ==
    /\ cpc[c] = "register"
    /\ LET t == ctask[c]
       IN  IF fut[t].state /= "finished"
           THEN /\ fut' = [fut EXCEPT ![t].registered = TRUE]
                /\ returned' = [returned EXCEPT ![t] = << ReturnValue(c) >>]
                /\ cpc' = [cpc EXCEPT ![c] = "idle"]
                /\ od' = od
           ELSE /\ od' = [od EXCEPT ![c] = StartOnDone(t, fut[t].exc)]
                /\ cpc' = [cpc EXCEPT ![c] = "on_done"]
                /\ UNCHANGED << fut, returned >>
    /\ UNCHANGED << evalvars, procvars, sysvars, queue, ntasks, tag_bucket, apt_fd, files, wpc, wtask,
                    cbucket, pkg_to_install, ctask, log, outcome, wrote, ncb, cb_order,
                    result, histvars >>

(***************************************************************************)
(* _on_done, on the thread th that runs it                                 *)
(***************************************************************************)
\* ResultError with the future's exception ignored
ResultErrorIgnored(exc, fd, fs) == NullError

\* lines 255-263: the result's error; the exchange file read is the one
\* self.apt_fd names when the line runs
ResultError(exc, fd, fs) ==
    IF exc.kind = "none" THEN NullError
    ELSE [null |-> FALSE, msg |-> exc, sub |-> IF fs[fd] = "out" THEN fd ELSE 0]

OnDoneBuild(th) ==
    /\ od[th].pc = "build"
    /\ od' = [od EXCEPT ![th].pc = "remove",
                        ![th].error = ResultError(fut[od[th].task].exc, apt_fd, files)]
    /\ UNCHANGED << evalvars, procvars, sysvars, queue, ntasks, tag_bucket, fut, apt_fd, files, wpc, wtask,
                    cpc, cbucket, pkg_to_install, ctask, obsvars, histvars >>

\* line 266: os.remove(self.apt_fd.name) raises FileNotFoundError on a missing file
RemoveRaises(fd, fs) == fs[fd] = "none"

\* _on_done is over on thread th: the worker goes back to its queue, a caller
\* returns from add_done_callback and then from install_bucket (line 194)
OnDoneReturns(th) ==
    /\ od' = [od EXCEPT ![th] = NoOnDone]
    /\ IF th = Worker
       THEN /\ wpc' = "idle"
            /\ UNCHANGED << cpc, returned >>
       ELSE /\ cpc' = [cpc EXCEPT ![th] = "idle"]
            /\ returned' = [returned EXCEPT ![od[th].task] = << ReturnValue(th) >>]
            /\ wpc' = wpc

\* line 266: the exchange file self.apt_fd names is removed; when os.remove
\* raises, _on_done ends there (the executor logs the exception) and
\* installed_callback is not called
OnDoneRemove(th) ==
    /\ od[th].pc = "remove"
    /\ IF RemoveRaises(apt_fd, files)
       THEN /\ OnDoneReturns(th)
            /\ files' = files
       ELSE /\ files' = [files EXCEPT ![apt_fd] = "none"]
            /\ od' = [od EXCEPT ![th].pc = "call"]
            /\ UNCHANGED << wpc, cpc, returned >>
    /\ UNCHANGED << evalvars, procvars, sysvars, queue, ntasks, tag_bucket, fut, apt_fd, wtask, cbucket,
                    pkg_to_install, ctask, log, outcome, wrote, ncb, cb_order, result, histvars >>

\* line 267: future.tag_bucket["installed_callback"](result)
OnDoneCall(th) ==
    /\ od[th].pc = "call"
    /\ LET t == od[th].task
       IN  /\ ncb' = [ncb EXCEPT ![t] = @ + 1]
           /\ cb_order' = Append(cb_order, t)
           /\ result' = [result EXCEPT ![t] = od[th].error]
    /\ OnDoneReturns(th)
    /\ UNCHANGED << evalvars, procvars, sysvars, queue, ntasks, tag_bucket, fut, apt_fd, files, wtask,
                    cbucket, pkg_to_install, ctask, log, outcome, wrote, histvars >>

(***************************************************************************)
(* The worker: _WorkItem.run around _really_install_bucket                 *)
(***************************************************************************)
\* the future is set (result or exception) and the callbacks registered by then
\* are run on the worker, before it takes the next work item
SetFuture(t, exc) ==
    /\ fut' = [fut EXCEPT ![t].state = "finished", ![t].exc = exc]
    /\ IF fut[t].registered
       THEN /\ od' = [od EXCEPT ![Worker] = StartOnDone(t, exc)]
            /\ wpc' = "on_done"
       ELSE /\ od' = od
            /\ wpc' = "idle"

\* Dequeue by an executor that starts a work item while another is being applied
\* (a second worker thread)
DequeueWhileApplying ==
    /\ wpc \in {"idle", "apply"}
    /\ queue /= << >>
    /\ LET t == Head(queue)
       IN  /\ queue' = Tail(queue)
           /\ wtask' = t
           /\ fut' = [fut EXCEPT ![t].state = "running"]
           /\ apt_fd' = t
           /\ files' = [files EXCEPT ![t] = "empty"]
    /\ wpc' = "eval"
    /\ db_start' = db
    /\ UNCHANGED << evalvars, procvars, sysvars, ntasks, tag_bucket, cpc, cbucket, pkg_to_install, ctask, od,
                    obsvars, ceval, at_call >>

\* the worker takes the next work item; lines 198-203: a new, empty exchange
\* file is created and self.apt_fd names it
Dequeue ==
    /\ wpc = "idle"
    /\ queue /= << >>
    /\ LET t == Head(queue)
       IN  /\ queue' = Tail(queue)
           /\ wtask' = t
           /\ fut' = [fut EXCEPT ![t].state = "running"]
           /\ apt_fd' = t
           /\ files' = [files EXCEPT ![t] = "empty"]
    /\ wpc' = "eval"
    /\ db_start' = db
    /\ UNCHANGED << evalvars, procvars, sysvars, ntasks, tag_bucket, cpc, cbucket, pkg_to_install, ctask, od,
                    obsvars, ceval, at_call >>

\* WorkerEvaluate without lines 205-206: the bucket is not evaluated again
WorkerEvaluateNoRecheck ==
    /\ wpc = "eval"
    /\ wpc' = "arch"
    /\ UNCHANGED << evalvars, procvars, sysvars, queue, ntasks, tag_bucket, fut, apt_fd, files, wtask, cpc,
                    cbucket, pkg_to_install, ctask, od, obsvars, histvars >>

\* WorkerEvaluate that reports a download step before the test of line 205
WorkerEvaluateReports ==
    /\ wpc = "eval"
    /\ progress' = [progress EXCEPT ![wtask] =
                       Append(@, [step |-> STATUS_DOWNLOADING, state |-> fut[wtask].state,
                                  called_back |-> ncb[wtask] > 0])]
    /\ LET r == IsBucketUptodate(tag_bucket[wtask], Env, jstate)
       IN  /\ tag_bucket' = [tag_bucket EXCEPT ![wtask] = r.bucket]
           /\ jstate' = r.js
           /\ IF r.ret
              THEN /\ outcome' = [outcome EXCEPT ![wtask] = "uptodate"]
                   /\ SetFuture(wtask, NoExc)
              ELSE /\ wpc' = "arch"
                   /\ UNCHANGED << outcome, fut, od >>
    /\ UNCHANGED << evalvars, euid, child, lock_held, submitted, cache, db, foreign_archs,
                    java_env, queue, ntasks, apt_fd, files, wtask, cpc, cbucket,
                    pkg_to_install, ctask, log, wrote, ncb, cb_order, result, returned,
                    histvars >>

\* lines 205-206: if self.is_bucket_uptodate(bucket): return True
WorkerEvaluate ==
    /\ wpc = "eval"
    /\ LET r == IsBucketUptodate(tag_bucket[wtask], Env, jstate)
       IN  /\ tag_bucket' = [tag_bucket EXCEPT ![wtask] = r.bucket]
           /\ jstate' = r.js
           /\ IF r.ret
              THEN /\ outcome' = [outcome EXCEPT ![wtask] = "uptodate"]
                   /\ SetFuture(wtask, NoExc)
              ELSE /\ wpc' = "arch"
                   /\ UNCHANGED << outcome, fut, od >>
    /\ UNCHANGED << evalvars, procvars, cache, db, foreign_archs, java_env, queue, ntasks, apt_fd, files,
                    wtask, cpc, cbucket, pkg_to_install, ctask, log, wrote, ncb, cb_order,
                    result, returned, histvars >>

\* add_foreign_arch of umake.tools: enables arch unless it is enabled already or
\* is the current one; returns whether it was added
AddForeignArch(arch, foreign) ==
    IF arch \notin foreign /\ arch /= CurrentArch
    THEN [added |-> TRUE, foreign |-> foreign \cup {arch}]
    ELSE [added |-> FALSE, foreign |-> foreign]

\* lines 208-212: need_cache_reload = need_cache_reload or add_foreign_arch(arch)
\* (add_foreign_arch is not called once need_cache_reload is True)
RECURSIVE ForeignArchLoop(_, _, _, _, _)
ForeignArchLoop(bucket, i, need, foreign, calls) ==
    IF i > Len(bucket) THEN [need |-> need, foreign |-> foreign, calls |-> calls]
    ELSE IF HasArch(bucket[i]) /\ ~need
         THEN LET arch == SplitArch(bucket[i]).arch
                  r == AddForeignArch(arch, foreign)
              IN  ForeignArchLoop(bucket, i + 1, r.added, r.foreign,
                                  IF r.added
                                  THEN Append(calls, Call("add_foreign_arch", << Alt("", arch) >>))
                                  ELSE calls)
         ELSE ForeignArchLoop(bucket, i + 1, need, foreign, calls)

\* lines 208-218: foreign architectures are enabled, then the lists are updated
\* and the cache reloaded.  The process is root from line 215 to line 217 and the
\* invoking user again when the step is over.
WorkerForeignArch ==
    /\ wpc = "arch"
    /\ LET r == ForeignArchLoop(tag_bucket[wtask], 1, FALSE, foreign_archs, log[wtask])
       IN  /\ foreign_archs' = r.foreign
           /\ IF r.need /\ ForceReloadRaises(lock_held)
              THEN /\ UNCHANGED << db, cache >>
                   /\ log' = [log EXCEPT ![wtask] = Append(r.calls, Call("reload", << >>))]
                   /\ lock_held' = LockHeldAfter(lock_held)
                   /\ outcome' = [outcome EXCEPT ![wtask] = "reload_failed"]
                   /\ SetFuture(wtask, ReloadExc)
              ELSE /\ IF r.need
                      THEN /\ db' = [db EXCEPT !.pkgs = Repo(r.foreign)]
                           /\ cache' = ForceReloadAptCache(db')
                           /\ log' = [log EXCEPT ![wtask] =
                                         r.calls \o << Call("reload", << >>),
                                                       Call("update", << >>),
                                                       Call("reload", << >>) >>]
                           /\ lock_held' = LockHeldAfter(lock_held)
                      ELSE /\ UNCHANGED << db, cache, lock_held >>
                           /\ log' = [log EXCEPT ![wtask] = r.calls]
                   /\ wpc' = "mark"
                   /\ UNCHANGED << outcome, fut, od >>
    /\ UNCHANGED << evalvars, euid, child, submitted, progress, java_env, jstate, queue, ntasks,
                    tag_bucket, apt_fd, files, wtask, cpc, cbucket, pkg_to_install, ctask,
                    wrote, ncb, cb_order, result, returned, histvars >>

\* MarkLoop with the exception of line 236 swallowed: the specifier is skipped
RECURSIVE MarkLoopSwallow(_, _, _, _)
MarkLoopSwallow(bucket, i, c, calls) ==
    IF i > Len(bucket) THEN [cache |-> c, exc |-> NoExc, calls |-> calls]
    ELSE LET pkg == StripCurrentArch(bucket[i])
         IN  IF ~InCache(pkg, c)
             THEN MarkLoopSwallow(bucket, i + 1, c, calls)
             ELSE IF IsInstalled(pkg, c) /\ IsUpgradable(pkg, c)
                  THEN MarkLoopSwallow(bucket, i + 1,
                                       [c EXCEPT !.mark_upgrade = @ \cup {pkg[1]}],
                                       Append(calls, Call("mark_upgrade", pkg)))
                  ELSE MarkLoopSwallow(bucket, i + 1,
                                       [c EXCEPT !.mark_install = @ \cup {pkg[1]}],
                                       Append(calls, Call("mark_install", pkg)))

\* MarkLoop without the test of line 230: every specifier is marked for install
RECURSIVE MarkLoopInstallOnly(_, _, _, _)
MarkLoopInstallOnly(bucket, i, c, calls) ==
    IF i > Len(bucket) THEN [cache |-> c, exc |-> NoExc, calls |-> calls]
    ELSE LET pkg == StripCurrentArch(bucket[i])
         IN  IF ~InCache(pkg, c)
             THEN [cache |-> c, exc |-> [kind |-> "mark", pkg |-> pkg], calls |-> calls]
             ELSE MarkLoopInstallOnly(bucket, i + 1,
                                      [c EXCEPT !.mark_install = @ \cup {pkg[1]}],
                                      Append(calls, Call("mark_install", pkg)))

\* lines 221-238: each specifier is marked on the cache handle; a specifier that
\* is no package of the cache (KeyError) raises "Can't mark for install <pkg_name>"
RECURSIVE MarkLoop(_, _, _, _)
MarkLoop(bucket, i, c, calls) ==
    IF i > Len(bucket) THEN [cache |-> c, exc |-> NoExc, calls |-> calls]
    ELSE LET pkg == StripCurrentArch(bucket[i])
         IN  IF ~InCache(pkg, c)
             THEN [cache |-> c, exc |-> [kind |-> "mark", pkg |-> pkg], calls |-> calls]
             ELSE IF IsInstalled(pkg, c) /\ IsUpgradable(pkg, c)
                  THEN MarkLoop(bucket, i + 1,
                                [c EXCEPT !.mark_upgrade = @ \cup {pkg[1]}],
                                Append(calls, Call("mark_upgrade", pkg)))
                  ELSE MarkLoop(bucket, i + 1,
                                [c EXCEPT !.mark_install = @ \cup {pkg[1]}],
                                Append(calls, Call("mark_install", pkg)))

WorkerMark ==
    /\ wpc = "mark"
    /\ LET r == MarkLoop(tag_bucket[wtask], 1, cache, log[wtask])
       IN  /\ cache' = r.cache
           /\ log' = [log EXCEPT ![wtask] = r.calls]
           /\ IF r.exc.kind /= "none"
              THEN /\ outcome' = [outcome EXCEPT ![wtask] = "mark_failed"]
                   /\ SetFuture(wtask, r.exc)
              ELSE /\ wpc' = "fetch"
                   /\ UNCHANGED << outcome, fut, od >>
    /\ UNCHANGED << evalvars, procvars, db, foreign_archs, java_env, jstate, queue, ntasks, tag_bucket, apt_fd,
                    files, wtask, cpc, cbucket, pkg_to_install, ctask, wrote, ncb,
                    cb_order, result, returned, histvars >>

\* lines 242-249, 293, 321: the progress handlers built for the commit of task t
\* call its progress_callback; what held of the task then is kept with the call
ProgressCallback(t, step) ==
    [progress EXCEPT ![t] = Append(@, [step |-> step, state |-> fut[t].state,
                                      called_back |-> ncb[t] > 0])]

\* lines 241-249: inside `with as_root():`, self.cache.commit(...) is called; it
\* fetches the archives first (_FetchProgress.pulse reports the download), and a
\* fetch failure raises out of commit, and out of the with block, before
\* anything is applied
WorkerFetch ==
    /\ wpc = "fetch"
    /\ log' = [log EXCEPT ![wtask] = Append(@, Call("commit", << >>))]
    /\ progress' = ProgressCallback(wtask, STATUS_DOWNLOADING)
    /\ \E ok \in BOOLEAN :
           IF ok
           THEN /\ wpc' = "apply"
                /\ euid' = AsRoot
                /\ UNCHANGED << outcome, fut, od >>
           ELSE /\ outcome' = [outcome EXCEPT ![wtask] = "fetch_failed"]
                /\ euid' = User
                /\ SetFuture(wtask, [kind |-> "fetch", pkg |-> << >>])
    /\ UNCHANGED << evalvars, child, lock_held, submitted, sysvars, queue, ntasks, tag_bucket, apt_fd, files, wtask, cpc, cbucket,
                    pkg_to_install, ctask, wrote, ncb, cb_order, result, returned, histvars >>

\* what a completed commit does to the system: the staged marks are applied
Committed(d, c) ==
    [d EXCEPT !.installed = @ \cup c.mark_install,
              !.upgradable = @ \ (c.mark_install \cup c.mark_upgrade)]

\* finish_update without line 317
FinishUpdateNoReload(d, c, calls) ==
    [cache |-> c, calls |-> Append(calls, Call("finish_update", << >>))]

\* _InstallProgress.finish_update, lines 313-317
FinishUpdate(d, c, calls) ==
    [cache |-> ForceReloadAptCache(d),
     calls |-> calls \o << Call("finish_update", << >>), Call("reload", << >>) >>]

\* _InstallProgress.error, lines 305-311: reloads, then raises
InstallProgressError(d, c, calls) ==
    [cache |-> ForceReloadAptCache(d),
     calls |-> calls \o << Call("error", << >>), Call("reload", << >>) >>]

\* the apply step of commit, in the forked child whose output goes to the
\* exchange file (_redirect_output): it completes ("ok": finish_update, commit
\* returns), dpkg reports an error ("error": _InstallProgress.error raises), or
\* the install fails with finish_update still called ("failed", lines 314-315).
\* A reload that raises leaves the handle as it was and is the exception of the
\* task.  The with block of line 241 is left when commit is over.
\* _InstallProgress.status_change reports the step.
WorkerApply ==
    /\ wpc = "apply"
    /\ \E how \in {"ok", "error", "failed"}, w \in BOOLEAN :
           LET d == IF how = "ok" THEN Committed(db, cache) ELSE db
               r == IF how = "error" THEN InstallProgressError(d, cache, log[wtask])
                    ELSE FinishUpdate(d, cache, log[wtask])
               out == w /\ files[wtask] /= "none"
               raises == ForceReloadRaises(lock_held)
           IN  /\ child' = [child EXCEPT ![wtask] = ForkChild(wtask, files)]
               /\ db' = d
               /\ cache' = IF raises THEN cache ELSE r.cache
               /\ log' = [log EXCEPT ![wtask] = r.calls]
               /\ lock_held' = LockHeldAfter(lock_held)
               /\ files' = [files EXCEPT ![wtask] = IF out THEN "out" ELSE @]
               /\ wrote' = [wrote EXCEPT ![wtask] = out]
               /\ outcome' = [outcome EXCEPT ![wtask] =
                                 IF raises THEN "reload_failed"
                                 ELSE IF how = "ok" THEN "installed" ELSE "apply_failed"]
               /\ SetFuture(wtask, IF raises THEN ReloadExc
                                   ELSE IF how = "ok" THEN NoExc
                                   ELSE [kind |-> "apply", pkg |-> << >>])
    /\ euid' = User
    /\ progress' = ProgressCallback(wtask, STATUS_INSTALLING)
    /\ UNCHANGED << evalvars, submitted, foreign_archs, java_env, jstate, queue, ntasks, tag_bucket, apt_fd,
                    wtask, cpc, cbucket, pkg_to_install, ctask, ncb, cb_order, result,
                    returned, histvars >>

Next ==
    \/ \E c \in Callers, b \in BucketChoices : InstallBucketEvaluate(c, b)
    \/ \E c \in Callers : Submit(c)
    \/ \E c \in Callers : AddDoneCallback(c)
    \/ \E th \in Threads : OnDoneBuild(th)
    \/ \E th \in Threads : OnDoneRemove(th)
    \/ \E th \in Threads : OnDoneCall(th)
    \/ Dequeue
    \/ WorkerEvaluate
    \/ WorkerForeignArch
    \/ WorkerMark
    \/ WorkerFetch
    \/ WorkerApply

Spec == Init /\ [][Next]_vars

(***************************************************************************)
(* The handler used from one calling thread, on a system where another     *)
(* process may hold the package database lock, by a caller that goes on    *)
(* using the list it passed.                                               *)
(***************************************************************************)
SoloCallers == {"c1"}
SoloThreads == SoloCallers \cup {Worker}

\* a bucket that names two foreign architectures
TwoArchBucket == << << Alt("f", "armhf") >>, << Alt("f", "arm64") >> >>

SoloBuckets == BucketChoices \cup {TwoArchBucket}

\* another process holds the lock for so many opens
SoloInit == InitSystem /\ lock_held \in 0..RecursionLimit

\* lines 183-192: bucket_pack["bucket"] is the list object the caller passed, not
\* a copy.  After install_bucket has returned, the caller appends a specifier to
\* its list while the task is queued or running.
CallerChangesBucket(t) ==
    /\ returned[t] /= << >>
    /\ fut[t].state \in {"pending", "running"}
    /\ tag_bucket[t] = submitted[t]
    /\ tag_bucket' = [tag_bucket EXCEPT ![t] = Append(@, Plain("n"))]
    /\ UNCHANGED << evalvars, procvars, sysvars, queue, ntasks, fut, apt_fd, files, wpc,
                    wtask, cpc, cbucket, pkg_to_install, ctask, od, obsvars, histvars >>

SoloNext ==
    \/ \E c \in SoloCallers, b \in SoloBuckets : InstallBucketEvaluate(c, b)
    \/ \E c \in SoloCallers : Submit(c)
    \/ \E c \in SoloCallers : AddDoneCallback(c)
    \/ \E t \in Tasks : CallerChangesBucket(t)
    \/ \E th \in SoloThreads : OnDoneBuild(th)
    \/ \E th \in SoloThreads : OnDoneRemove(th)
    \/ \E th \in SoloThreads : OnDoneCall(th)
    \/ Dequeue
    \/ WorkerEvaluate
    \/ WorkerForeignArch
    \/ WorkerMark
    \/ WorkerFetch
    \/ WorkerApply

SoloSpec == SoloInit /\ [][SoloNext]_vars

(***************************************************************************)
(* The evaluators called directly (read-only queries, on the calling       *)
(* thread): is_bucket_installed, is_bucket_available, is_bucket_uptodate   *)
(* and check_java_equiv on one bucket list, against every system state of  *)
(* a bounded set, with nothing submitted to the executor.                  *)
(***************************************************************************)
\* evaluator calls made on the bucket in one run
MaxEvalCalls == 2

OpenJdk8Jre == Alt("openjdk-8-jre", "")
ForeignF == Alt("f", "armhf")

\* a package is absent from the lists, available, installed, or installed with
\* an upgrade pending
EvalStatuses ==
    { st \in [ {Alt("a", ""), Alt("b", ""), Alt("c", ""), OpenJdk8Jre, ForeignF} ->
                   {"absent", "available", "installed", "upgradable"} ] :
        /\ st[Alt("b", "")] /= "upgradable"
        /\ st[ForeignF] \in {"absent", "available"} }

DbOf(st) ==
    [pkgs |-> {p \in DOMAIN st : st[p] /= "absent"},
     installed |-> {p \in DOMAIN st : st[p] \in {"installed", "upgradable"}},
     upgradable |-> {p \in DOMAIN st : st[p] = "upgradable"}]

\* what `java -version` / `javac -version` print: "11.0.2", "9.0", or the
\* command is missing
V11_0_2 == << 1, 1, -1, 0, -1, 2 >>
V9_0 == << 9, -1, 0 >>
JavaEnvs == [java : {None, V11_0_2, V9_0}, javac : {None, V11_0_2}]

EvalBuckets ==
    { << << Alt("a", ""), Alt("b", "") >> >>,
      << << Alt("b", ""), Alt("a", "") >> >>,
      << << Alt("a", ""), Alt("b", "") >>, << Alt("b", ""), Alt("a", "") >> >>,
      << << Alt("a", ""), Alt("b", "") >>, Plain("c") >>,
      << Plain("a") >>,
      << << Alt("a", CurrentArch) >> >>,
      << << ForeignF >> >>,
      << << ForeignF >>, Plain("a") >>,
      << Plain("openjdk-8-jre") >>,
      << Plain("c"), Plain("openjdk-8-jre") >>,
      << Plain("openjdk-8-jre"), Plain("c") >>,
      << Plain("openjdk-11-jre") >>,
      << Plain("openjdk-11-jdk") >> }

\* the package names the specifiers of a bucket hold
NamesOf(bucket) ==
    UNION { {bucket[i][k].name : k \in 1..Len(bucket[i])} : i \in 1..Len(bucket) }

\* the system varies in what the evaluation of the bucket reads: the packages
\* the bucket names, and the java commands when it names an openjdk package
EvalInit ==
    /\ ev_bucket \in EvalBuckets
    /\ \E st \in EvalStatuses, fa \in SUBSET {"armhf"} :
           /\ st[ForeignF] = "absent" \/ "armhf" \in fa
           /\ \A p \in DOMAIN st : p.name \notin NamesOf(ev_bucket) => st[p] = "absent"
           /\ db = DbOf(st)
           /\ foreign_archs = fa
    /\ cache = Reload(db)
    /\ java_env \in JavaEnvs
    /\ (\E i \in 1..Len(ev_bucket) : IsOpenJdk(ev_bucket[i]))
           \/ java_env = [java |-> None, javac |-> None]
    /\ IdleHandler
    /\ db_start = db
    /\ ev_log = << >>
    /\ reports = << >>
    /\ lock_held = 0

\* the evaluator named fn applied to a bucket
Evaluator(fn, bucket, E, js) ==
    CASE fn = "installed" -> IsBucketInstalled(bucket, E, js)
      [] fn = "available" -> IsBucketAvailable(bucket, E, js)
      [] fn = "uptodate"  -> IsBucketUptodate(bucket, E, js)

\* an evaluator call that returned r on the caller's list: the list is mutated
\* in place, the handler keeps the probe output it cached
EvalCall(fn, r) ==
    /\ ev_bucket' = r.bucket
    /\ jstate' = r.js
    /\ ev_log' = Append(ev_log, [fn |-> fn, before |-> ev_bucket,
                                 after |-> r.bucket, ret |-> r.ret,
                                 js |-> jstate, js_after |-> r.js])
    /\ UNCHANGED << cache, db, foreign_archs, java_env, queue, ntasks, tag_bucket, fut,
                    apt_fd, files, wpc, wtask, cpc, cbucket, pkg_to_install, ctask, od,
                    obsvars, histvars, reports, procvars >>

EvalIsBucketInstalled ==
    /\ Len(ev_log) < MaxEvalCalls
    /\ \E r \in {IsBucketInstalled(ev_bucket, Env, jstate)} : EvalCall("installed", r)

EvalIsBucketAvailable ==
    /\ Len(ev_log) < MaxEvalCalls
    /\ \E r \in {IsBucketAvailable(ev_bucket, Env, jstate)} : EvalCall("available", r)

EvalIsBucketUptodate ==
    /\ Len(ev_log) < MaxEvalCalls
    /\ \E r \in {IsBucketUptodate(ev_bucket, Env, jstate)} : EvalCall("uptodate", r)

\* check_java_equiv(pkg_name) called on the first specifier of the list
EvalCheckJavaEquiv ==
    /\ Len(ev_log) < MaxEvalCalls
    /\ ev_bucket /= << >> /\ IsOpenJdk(ev_bucket[1])
    /\ \E j \in {CheckJavaEquiv(ev_bucket[1], java_env, jstate)} :
           EvalCall("java", [ret |-> j.ret, bucket |-> ev_bucket, js |-> j.js])

EvalNext ==
    \/ EvalIsBucketInstalled
    \/ EvalIsBucketAvailable
    \/ EvalIsBucketUptodate
    \/ EvalCheckJavaEquiv

EvalSpec == EvalInit /\ [][EvalNext]_vars

(***************************************************************************)
(* The progress handlers of commit: _FetchProgress.pulse and               *)
(* _InstallProgress.status_change, called by the package manager with its  *)
(* counters, each passing one report to progress_callback.                 *)
(***************************************************************************)
\* the counters the package manager hands to pulse, and the reports of one run
MaxBytes == 2
MaxItems == 1
MaxReports == 2

\* lines 286-293: the report of pulse; the integer part of percent stands for
\* the float.  Dividing by float(0) raises ZeroDivisionError and no report is
\* passed.
PulseReport(current_bytes, current_items, total_bytes, total_items) ==
    IF total_bytes + total_items = 0
    THEN [raised |-> "ZeroDivisionError", step |-> STATUS_DOWNLOADING,
          percentage |-> 0, pkg_size_download |-> total_bytes]
    ELSE [raised |-> "none", step |-> STATUS_DOWNLOADING,
          percentage |-> ((current_bytes + current_items) * 100) \div
                             (total_bytes + total_items),
          pkg_size_download |-> total_bytes]

\* lines 319-321: the percent of the package manager is passed on as it is
StatusChangeReport(percent) ==
    [raised |-> "none", step |-> STATUS_INSTALLING, percentage |-> percent,
     pkg_size_download |-> 0]

ProgressUnchanged ==
    UNCHANGED << sysvars, queue, ntasks, tag_bucket, fut, apt_fd, files, wpc, wtask, cpc,
                 cbucket, pkg_to_install, ctask, od, obsvars, histvars, ev_bucket, ev_log,
                 procvars >>

Pulse ==
    /\ Len(reports) < MaxReports
    /\ \E total_bytes \in 0..MaxBytes, total_items \in 0..MaxItems :
           \E current_bytes \in 0..total_bytes, current_items \in 0..total_items :
               reports' = Append(reports, PulseReport(current_bytes, current_items,
                                                      total_bytes, total_items))
    /\ ProgressUnchanged

StatusChange ==
    /\ Len(reports) < MaxReports
    /\ \E percent \in {0, 50, 100} :
           reports' = Append(reports, StatusChangeReport(percent))
    /\ ProgressUnchanged

ProgressNext == Pulse \/ StatusChange

ProgressSpec == Init /\ [][ProgressNext]_vars

(***************************************************************************)
(* The handler used from one calling thread on a system that has a java    *)
(* installed by hand (`java -version` prints 9.0) and none from the        *)
(* archive.                                                                *)
(***************************************************************************)
\* a bucket whose openjdk specifier the equivalence rule satisfies while c needs
\* an install, one whose second specifier is no package of the archive, and one
\* that needs an install alone
MarkBuckets ==
    { << Plain("openjdk-8-jre"), Plain("c") >>,
      << Plain("u"), Plain("n") >>,
      << Plain("c") >> }

MarkInit ==
    /\ InitPackages
    /\ java_env = [java |-> V9_0, javac |-> None]
    /\ lock_held = 0

MarkNext ==
    \/ \E c \in SoloCallers, b \in MarkBuckets : InstallBucketEvaluate(c, b)
    \/ \E c \in SoloCallers : Submit(c)
    \/ \E c \in SoloCallers : AddDoneCallback(c)
    \/ \E th \in SoloThreads : OnDoneBuild(th)
    \/ \E th \in SoloThreads : OnDoneRemove(th)
    \/ \E th \in SoloThreads : OnDoneCall(th)
    \/ Dequeue
    \/ WorkerEvaluate
    \/ WorkerForeignArch
    \/ WorkerMark
    \/ WorkerFetch
    \/ WorkerApply

MarkSpec == MarkInit /\ [][MarkNext]_vars

(***************************************************************************)
(* Properties                                                              *)
(***************************************************************************)
Done(t) == fut[t].state = "finished"

\* task t is over for everyone: its future is finished, the install_bucket call
\* that created it has returned and no thread is inside its _on_done
Settled(t) ==
    /\ Done(t)
    /\ returned[t] /= << >>
    /\ \A th \in Threads : od[th].task /= t

LastOp(t) == log[t][Len(log[t])].op

\* C1: every install_bucket call leads to exactly one invocation of its
\* installed_callback: once the task is over, the callback has run once.
C1_ExactlyOneCallback == \A t \in Tasks : Settled(t) => ncb[t] = 1

\* C2: at most one transaction is in flight: a task is running or finished only
\* when every task submitted before it is finished.
C2_OneTransactionInFlight ==
    \A s \in Tasks, t \in Tasks :
        (s < t /\ fut[t].state \in {"running", "finished"}) => Done(s)

C2_Witness ==
    /\ Done(1) /\ "commit" \in Ops(1)
    /\ wtask = 2 /\ wpc = "apply"

\* C3: completion callbacks are delivered in submission order.
C3_CallbacksInSubmissionOrder ==
    \A i \in 1..Len(cb_order), j \in 1..Len(cb_order) :
        i < j => cb_order[i] < cb_order[j]

C5_SatisfiedBucketNoMutation ==
    /\ \A b \in BucketChoices :
           Satisfied(b, cache) => IsBucketUptodate(b, Env, jstate).ret
    /\ \A t \in Tasks :
           at_call[t].satisfied =>
               /\ returned[t] \in {<< >>, << FALSE >>}
               /\ log[t] = << >>
               /\ outcome[t] \in {"none", "uptodate"}
               /\ fut[t].exc = NoExc
               /\ result[t].null

C5_Witness ==
    \E t \in Tasks :
        /\ at_call[t].satisfied
        /\ returned[t] = << FALSE >>
        /\ ncb[t] = 1
        /\ result[t].null
        /\ log[t] = << >>

\* C6: when the worker evaluates a dequeued task whose bucket is up to date by
\* then, the task ends successfully at once, with no package-manager call, and
\* delivers error None, also when install_bucket had returned True.
C6_ShortCircuitOnDequeue ==
    /\ [][ (wpc = "eval" /\ wpc' /= "eval"
             /\ IsBucketUptodate(tag_bucket[wtask], Env, jstate).ret)
           => (/\ outcome'[wtask] = "uptodate"
               /\ fut'[wtask].state = "finished"
               /\ fut'[wtask].exc = NoExc
               /\ log'[wtask] = << >>) ]_vars
    /\ [](\A t \in Tasks :
            outcome[t] = "uptodate" =>
                /\ log[t] = << >>
                /\ Done(t) /\ fut[t].exc = NoExc
                /\ result[t].null)

C6_Witness ==
    \E t \in Tasks :
        /\ returned[t] = << TRUE >>
        /\ ~at_call[t].uptodate
        /\ outcome[t] = "uptodate"
        /\ ncb[t] = 1
        /\ result[t].null

Succeeded == {"uptodate", "installed"}
Failed == {"mark_failed", "fetch_failed", "apply_failed", "reload_failed"}

\* C7: the delivered error is None exactly when the worker run ended without
\* raising, and is the raised message exactly when marking or commit failed;
\* the install_bucket call itself returns its boolean.
C7_ErrorIffRunRaised ==
    /\ \A t \in Tasks :
           ncb[t] > 0 =>
               /\ result[t].null <=> outcome[t] \in Succeeded
               /\ ~result[t].null <=> outcome[t] \in Failed
               /\ ~result[t].null => result[t].msg = fut[t].exc /\ fut[t].exc /= NoExc
    /\ \A t \in Tasks : Settled(t) => returned[t] \in {<< TRUE >>, << FALSE >>}

C7_Witness ==
    \E s \in Tasks, t \in Tasks :
        /\ ncb[s] = 1 /\ ~result[s].null /\ outcome[s] = "apply_failed"
        /\ ncb[t] = 1 /\ result[t].null /\ outcome[t] = "installed"

\* C8: the error delivered for a task whose commit failed holds the raised
\* message and the text of that task's own exchange file, if any was written.
C8_OwnExchangeFileText ==
    \A t \in Tasks :
        (ncb[t] > 0 /\ outcome[t] \in {"fetch_failed", "apply_failed"}) =>
            /\ result[t].msg = fut[t].exc
            /\ result[t].sub = IF wrote[t] THEN t ELSE 0

\* C9: when marking fails for a specifier, commit is not invoked for the task,
\* the task installs and upgrades nothing, and the delivered error names the
\* package that could not be marked; commit is invoked only with every
\* specifier of the bucket a package of the cache.
C9_MarkFailureAborts ==
    /\ \A t \in Tasks :
           outcome[t] = "mark_failed" =>
               /\ "commit" \notin Ops(t)
               /\ fut[t].exc.kind = "mark"
               /\ \E i \in 1..Len(tag_bucket[t]) :
                      fut[t].exc.pkg = StripCurrentArch(tag_bucket[t][i])
               /\ ncb[t] > 0 => (~result[t].null /\ result[t].msg = fut[t].exc)
               /\ wtask = t =>
                      /\ db.installed = db_start.installed
                      /\ db.upgradable = db_start.upgradable
    /\ (wtask /= 0 /\ "commit" \in Ops(wtask)) =>
           \A i \in 1..Len(tag_bucket[wtask]) :
               InCache(StripCurrentArch(tag_bucket[wtask][i]), cache)

\* marking failed on the second specifier, after the first had been staged
C9_Witness ==
    \E t \in Tasks :
        /\ outcome[t] = "mark_failed"
        /\ wtask = t
        /\ ncb[t] = 1
        /\ result[t].msg.pkg = Plain("n")
        /\ "mark_upgrade" \in Ops(t)

\* the task's last package-manager call is the reload made by finish_update or
\* by error
ReloadedAtEnd(t) ==
    /\ Len(log[t]) >= 2
    /\ LastOp(t) = "reload"
    /\ log[t][Len(log[t]) - 1].op \in {"finish_update", "error"}

C11_QueryAfterCommit ==
    \A t \in Tasks :
        (ncb[t] > 0 /\ outcome[t] = "installed" /\ result[t].null) =>
            /\ IsBucketUptodate(tag_bucket[t], Env, jstate).ret
            /\ IsBucketInstalled(tag_bucket[t], Env, jstate).ret

\* the bucket needed an install and an upgrade at call time
C11_Witness ==
    \E t \in Tasks :
        /\ ncb[t] = 1 /\ outcome[t] = "installed" /\ result[t].null
        /\ returned[t] = << TRUE >>
        /\ "mark_install" \in Ops(t) /\ "mark_upgrade" \in Ops(t)

\* C12: after the result of a task has been dispatched, whatever its outcome,
\* the exchange file of that task no longer exists.
C12_ExchangeFileRemoved ==
    \A t \in Tasks : (Settled(t) /\ ncb[t] > 0) => files[t] = "none"

(***************************************************************************)
(* Properties of the evaluators (EvalSpec)                                 *)
(***************************************************************************)
EvaluatorNames == {"installed", "available", "uptodate"}

\* the test each evaluator applies to one alternative when it resolves an
\* alternation: is_bucket_installed([package]) at line 65,
\* is_bucket_available([package]) at lines 90 and 126
PresenceTest(fn, alt, E, js) ==
    IF fn = "installed" THEN IsBucketInstalled(<< << alt >> >>, E, js).ret
    ELSE IsBucketAvailable(<< << alt >> >>, E, js).ret

\* the alternatives of specifier s that pass the test of evaluator fn
SatAlts(fn, s, E, js) == {k \in 1..Len(s) : PresenceTest(fn, s[k], E, js)}

Entries == {ev_log[i] : i \in 1..Len(ev_log)}

\* C13: on a bucket ["a | b"] of which exactly one alternative passes the
\* evaluator's test, the evaluation leaves the list holding that alternative
\* alone, and every later evaluation leaves the list as it is.
C13_SingleAlternationResolved ==
    \A i \in 1..Len(ev_log) :
        LET e == ev_log[i]
        IN  (/\ e.fn \in EvaluatorNames
             /\ Len(e.before) = 1 /\ IsAlternation(e.before[1])
             /\ Cardinality(SatAlts(e.fn, e.before[1], Env, e.js)) = 1) =>
                /\ \E k \in SatAlts(e.fn, e.before[1], Env, e.js) :
                       e.after = << << e.before[1][k] >> >>
                /\ \A j \in (i + 1)..Len(ev_log) :
                       /\ ev_log[j].before = e.after
                       /\ ev_log[j].after = e.after

\* ["a | b"] with only b available was evaluated twice by is_bucket_uptodate
C13_Witness ==
    /\ Len(ev_log) = 2
    /\ ev_log[1].fn = "uptodate" /\ ev_log[2].fn = "uptodate"
    /\ ev_log[1].before = << << Alt("a", ""), Alt("b", "") >> >>
    /\ ev_log[1].after = << Plain("b") >>
    /\ ev_log[2].after = << Plain("b") >>

\* C14: after an evaluation in which every alternation of the bucket has an
\* alternative that passes the evaluator's test, no specifier of the bucket is
\* an alternation.
C14_NoAlternationLeft ==
    \A e \in Entries :
        (/\ e.fn \in EvaluatorNames
         /\ \A i \in 1..Len(e.before) :
                IsAlternation(e.before[i]) => SatAlts(e.fn, e.before[i], Env, e.js) /= {}) =>
            \A i \in 1..Len(e.after) : ~IsAlternation(e.after[i])

\* C15: for a bucket ["a | b"] of which some alternative is installed and not
\* upgradable, is_bucket_uptodate returns True (and install_bucket, which
\* returns its negation, False), whatever the position of that alternative.
C15_AnyAlternativeSatisfies ==
    \A e \in Entries :
        (/\ e.fn = "uptodate"
         /\ Len(e.before) = 1 /\ IsAlternation(e.before[1])
         /\ \E k \in 1..Len(e.before[1]) : Satisfied(<< << e.before[1][k] >> >>, cache)) =>
            /\ e.ret
            /\ ~PkgToInstall(e.ret)

\* C16: each evaluator returns for ["x:<current arch>"] what it returns for
\* ["x"], x in the cache or not.
C16_CurrentArchAsBare ==
    \A e \in Entries :
        (/\ e.fn \in EvaluatorNames
         /\ Len(e.before) = 1 /\ Len(e.before[1]) = 1
         /\ e.before[1][1].arch = CurrentArch) =>
            e.ret = Evaluator(e.fn, << Plain(e.before[1][1].name) >>, Env, e.js).ret

\* a specifier "x:arch" that is not in the cache, with arch neither the current
\* architecture nor an enabled foreign one
ForeignNotEnabled(s, E) ==
    /\ Len(s) = 1
    /\ s[1].arch \notin ({"", CurrentArch} \cup E.foreign)
    /\ ~InCache(s, E.cache)

\* C17: is_bucket_available counts a specifier of a foreign architecture that
\* is not enabled as available: the result is the one for the bucket without
\* such specifiers.
C17_ForeignArchRelaxed ==
    \A e \in Entries :
        e.fn = "available" =>
            e.ret = IsBucketAvailable(
                        SelectSeq(e.before, LAMBDA s : ~ForeignNotEnabled(s, Env)),
                        Env, e.js).ret

\* "f:armhf" is absent and armhf is not enabled; the bucket is available
\* because "a" is
C17_Witness ==
    \E e \in Entries :
        /\ e.fn = "available"
        /\ e.before = << << ForeignF >>, Plain("a") >>
        /\ ForeignNotEnabled(e.before[1], Env)
        /\ e.ret

\* a bucket holding one specifier "openjdk-<N>-jre" or "openjdk-<N>-jdk"
OneOpenJdk(b) == Len(b) = 1 /\ Len(b[1]) = 1 /\ b[1][1].arch = "" /\ IsOpenJdk(b[1])

\* C18 as stated: the verdict for an openjdk specifier is the result of
\* check_java_equiv, whatever the cache holds for that name.
C18_VerdictIsJavaEquiv ==
    \A e \in Entries :
        (e.fn \in EvaluatorNames /\ OneOpenJdk(e.before)) =>
            e.ret = CheckJavaEquiv(e.before[1], java_env, e.js).ret

\* C18 as amended: the cache is consulted first.  is_bucket_installed is True
\* when the cache has the package installed and is_bucket_available when the
\* cache has the package, both without calling check_java_equiv, and return
\* its result otherwise; is_bucket_uptodate is True exactly when the cache has
\* the package installed and not upgradable or check_java_equiv is True.
C18_CacheThenJavaEquiv ==
    \A e \in Entries :
        (e.fn \in EvaluatorNames /\ OneOpenJdk(e.before)) =>
            LET s == e.before[1]
                j == CheckJavaEquiv(s, java_env, e.js)
                in_cache == InCache(s, cache)
                installed == in_cache /\ IsInstalled(s, cache)
            IN  CASE e.fn = "installed" ->
                       IF installed THEN e.ret /\ e.js_after = e.js
                       ELSE e.ret = j.ret /\ e.js_after = j.js
                  [] e.fn = "available" ->
                       IF in_cache THEN e.ret /\ e.js_after = e.js
                       ELSE e.ret = j.ret /\ e.js_after = j.js
                  [] e.fn = "uptodate" ->
                       /\ e.ret = ((installed /\ ~IsUpgradable(s, cache)) \/ j.ret)
                       /\ e.js_after = j.js

\* "openjdk-8-jre" is installed from the archive while java 11.0.2 does not
\* pass check_java_equiv for it; is_bucket_installed returns True
C18_Witness ==
    \E e \in Entries :
        /\ e.fn = "installed"
        /\ e.before = << Plain("openjdk-8-jre") >>
        /\ IsInstalled(e.before[1], cache)
        /\ java_env.java = V11_0_2
        /\ ~CheckJavaEquiv(e.before[1], java_env, e.js).ret
        /\ e.ret

\* the numbers between the dots of a version string
RECURSIVE SplitNum(_, _)
SplitNum(v, cur) ==
    IF v = << >> THEN << cur >>
    ELSE IF Head(v) = -1 THEN << cur >> \o SplitNum(Tail(v), 0)
    ELSE SplitNum(Tail(v), cur * 10 + Head(v))

\* installed >= required, compared number by number
NumericSatisfies(installed, required) ==
    ~StrLess(SplitNum(installed, 0), SplitNum(required, 0))

\* C19: check_java_equiv returns True exactly when the probed version is
\* greater than or equal to the required major version, compared numerically
\* component by component.
C19_NumericVersionCompare ==
    \A e \in Entries :
        e.fn = "java" =>
            LET req == JavaRegex(FirstOpenJdk(e.before[1]))
                inst == IF req.release = "jre" THEN java_env.java ELSE java_env.javac
            IN  inst /= None => (e.ret <=> NumericSatisfies(inst, req.version))

\* C20: over the calls of one process each probing command is run at most
\* once, also when the binary is missing; with the binary missing
\* check_java_equiv returns False.
C20_ProbeAtMostOnce ==
    /\ jstate.pjava <= 1
    /\ jstate.pjavac <= 1
    /\ \A e \in Entries :
           e.fn = "java" =>
               LET req == JavaRegex(FirstOpenJdk(e.before[1]))
                   inst == IF req.release = "jre" THEN java_env.java ELSE java_env.javac
               IN  inst = None => ~e.ret

\* a specifier that is one package name: no alternation, no architecture, no
\* openjdk name
IsPlain(s) == Len(s) = 1 /\ s[1].arch = "" /\ ~IsOpenJdk(s)

\* C29: a plain specifier that is absent from the cache counts as not
\* installed and not available: a bucket holding one is reported neither
\* installed, nor available, nor up to date.
C29_AbsentNeverSatisfied ==
    \A e \in Entries :
        (/\ e.fn \in EvaluatorNames
         /\ \E i \in 1..Len(e.before) :
                IsPlain(e.before[i]) /\ ~InCache(e.before[i], cache)) =>
            ~e.ret

\* C30: an evaluator returns True only if every plain specifier of the bucket
\* passes its test, also in a bucket that holds an alternation.
C30_EverySpecifierExamined ==
    \A e \in Entries :
        (e.fn \in EvaluatorNames /\ e.ret) =>
            \A i \in 1..Len(e.before) :
                IsPlain(e.before[i]) =>
                    Evaluator(e.fn, << e.before[i] >>, Env, e.js).ret

\* C28: every report passed to progress_callback has a percent within 0..100,
\* and pulse computes one for all counters with bytesDone <= totalBytes and
\* itemsDone <= totalItems, totalBytes + totalItems = 0 included.
C28_PercentDefinedInRange ==
    \A i \in 1..Len(reports) :
        /\ reports[i].raised = "none"
        /\ reports[i].percentage \in 0..100

(***************************************************************************)
(* Properties of the queue, the privileged transaction and its child       *)
(***************************************************************************)
\* nothing is left to run: the queue is empty, the worker is idle, no call of
\* install_bucket and no _on_done is under way
Quiescent ==
    /\ queue = << >>
    /\ wpc = "idle"
    /\ \A c \in Callers : cpc[c] = "idle"
    /\ \A th \in Threads : od[th].pc = "none"

\* C23: every submitted task reaches Done and has its completion callback
\* invoked: once nothing is left to run, every future created is finished and
\* its installed_callback has been called.
C23_QuiescentAllNotified ==
    Quiescent => \A t \in 1..ntasks : Done(t) /\ ncb[t] > 0

\* the next step of the call of install_bucket that caller c is inside
CallerStep(c) ==
    \/ Submit(c)
    \/ AddDoneCallback(c)
    \/ OnDoneBuild(c)
    \/ OnDoneRemove(c)
    \/ OnDoneCall(c)

C26_ParentNeverRoot == euid = User

\* C27: the child forked for a task has the task's exchange file as standard
\* output and standard error and the null device as standard input.
C27_ChildStreamsRedirected ==
    \A t \in Tasks :
        child[t] /= NoChild =>
            child[t] = [stdin |-> "devnull", stdout |-> "exchange", stderr |-> "exchange"]

(***************************************************************************)
(* Properties of one calling thread's tasks (SoloSpec)                     *)
(***************************************************************************)
\* the architectures named by the specifiers of a bucket
ArchsOf(bucket) ==
    {SplitArch(bucket[i]).arch : i \in {k \in 1..Len(bucket) : HasArch(bucket[k])}}

\* C21: when the mark phase of a task starts, every architecture that qualifies
\* a specifier of its bucket is enabled (or is the current one), also when the
\* bucket names two architectures that were not enabled.
C21_AllArchsEnabledBeforeMark ==
    wpc = "mark" => ArchsOf(tag_bucket[wtask]) \subseteq foreign_archs \cup {CurrentArch}

\* C22: lock contention on reload is retried until the reload succeeds: no task
\* ends with an exception of the reload and no result carries one.
C22_ContentionNeverSurfaces ==
    \A t \in Tasks :
        /\ outcome[t] /= "reload_failed"
        /\ fut[t].exc /= ReloadExc
        /\ result[t].msg /= ReloadExc

\* the names the worker may look up for a bucket (line 224-227)
LookupNames(bucket) == {StripCurrentArch(bucket[i]) : i \in 1..Len(bucket)}

\* C25: the specifiers a task marks, and the one its error names, are specifiers
\* of the bucket as it was when the task was submitted.
C25_WorkerUsesSubmittedBucket ==
    \A t \in Tasks :
        /\ \A i \in 1..Len(log[t]) :
               log[t][i].op \in {"mark_install", "mark_upgrade"} =>
                   log[t][i].arg \in LookupNames(submitted[t])
        /\ fut[t].exc.kind = "mark" => fut[t].exc.pkg \in LookupNames(submitted[t])

(***************************************************************************)
(* Properties of the evaluators on buckets of several specifiers           *)
(***************************************************************************)
\* specifier s alone fails the test of evaluator fn on the cache: it is not
\* installed, or (is_bucket_uptodate) it is upgradable
FailsAlone(fn, s, c) ==
    IF fn = "installed" THEN ~(InCache(s, c) /\ IsInstalled(s, c))
    ELSE ~Satisfied(<< s >>, c)

\* C31: a bucket that holds an openjdk specifier for which check_java_equiv is
\* True and a plain specifier that is not installed (or is upgradable) is
\* reported neither installed nor up to date, in either order.
C31_EquivStandsForOwnSpecifier ==
    \A e \in Entries :
        (/\ e.fn \in {"installed", "uptodate"}
         /\ \E i, j \in 1..Len(e.before) :
                /\ i /= j
                /\ OneOpenJdk(<< e.before[i] >>)
                /\ CheckJavaEquiv(e.before[i], java_env, e.js).ret
                /\ IsPlain(e.before[j])
                /\ FailsAlone(e.fn, e.before[j], cache)) =>
            ~e.ret

\* C32: two calls in a row of the same evaluator on the same list, with the
\* package database unchanged in between, return the same boolean.
C32_SameVerdictTwice ==
    \A i \in 1..(Len(ev_log) - 1) :
        (/\ ev_log[i].fn \in EvaluatorNames
         /\ ev_log[i + 1].fn = ev_log[i].fn
         /\ ev_log[i + 1].before = ev_log[i].after) =>
            ev_log[i + 1].ret = ev_log[i].ret

(***************************************************************************)
(* Properties of the mark phase                                            *)
(***************************************************************************)
MarkOps == {"mark_install", "mark_upgrade"}

\* the marking calls of a task, in order
MarksOf(t) == SelectSeq(log[t], LAMBDA call : call.op \in MarkOps)

\* line 230: the mark a specifier gets on the cache handle c
MarkFor(pkg, c) ==
    IF IsInstalled(pkg, c) /\ IsUpgradable(pkg, c) THEN "mark_upgrade" ELSE "mark_install"

\* C33: the marks of a task are those of the specifiers of its bucket, one
\* each and in order; a specifier is marked for upgrade when its package is
\* installed and upgradable and for install otherwise; commit is called only
\* when every specifier has been marked, and after the marks.
C33_MarkedOnceThenCommit ==
    \A t \in Tasks :
        LET m == MarksOf(t)
            b == tag_bucket[t]
        IN  /\ Len(m) <= Len(b)
            /\ \A i \in 1..Len(m) : m[i].arg = StripCurrentArch(b[i])
            /\ (t = wtask /\ wpc \in {"fetch", "apply"}) =>
                   \A i \in 1..Len(m) : m[i].op = MarkFor(m[i].arg, cache)
            /\ \A k \in 1..Len(log[t]) :
                   log[t][k].op = "commit" =>
                       /\ Len(m) = Len(b)
                       /\ \A j \in 1..Len(log[t]) : log[t][j].op \in MarkOps => j < k

\* the worker is inside the commit of ["f:armhf", "u"]: f:armhf was marked for
\* install and u, installed and upgradable, for upgrade
C33_Witness ==
    /\ wpc = "apply"
    /\ tag_bucket[wtask] = << << Alt("f", "armhf") >>, Plain("u") >>
    /\ MarksOf(wtask) = << Call("mark_install", << Alt("f", "armhf") >>),
                           Call("mark_upgrade", Plain("u")) >>
    /\ LastOp(wtask) = "commit"

\* C34: no task marks a specifier for which check_java_equiv is True.
C34_EquivNeverMarked ==
    \A t \in Tasks :
        \A i \in 1..Len(log[t]) :
            (log[t][i].op \in MarkOps /\ IsOpenJdk(log[t][i].arg)) =>
                ~CheckJavaEquiv(log[t][i].arg, java_env, jstate).ret

\* the packages the specifiers of a bucket are looked up as (no alternation left)
PackagesOf(bucket) == {StripCurrentArch(bucket[i])[1] : i \in 1..Len(bucket)}

\* C35: the marks a commit applies are marks of the bucket of the task that
\* commits; marks staged by a task that failed while marking are not among them.
C35_CommitsOwnMarksOnly ==
    wpc = "apply" =>
        (cache.mark_install \cup cache.mark_upgrade) \subseteq PackagesOf(tag_bucket[wtask])

(***************************************************************************)
(* Properties of the exchange files and of the callbacks                   *)
(***************************************************************************)
\* the tasks the worker has taken whose installed_callback was not called yet
Undispatched == {t \in Tasks : fut[t].state \in {"running", "finished"} /\ ncb[t] = 0}

ExchangeFiles == {t \in Tasks : files[t] /= "none"}

\* C36: there are never more exchange files than tasks taken by the worker and
\* not yet dispatched, at most one, and none once nothing is left to run.
C36_NoExchangeFileLeak ==
    /\ Cardinality(ExchangeFiles) <= Cardinality(Undispatched)
    /\ Cardinality(ExchangeFiles) <= 1
    /\ Quiescent => ExchangeFiles = {}

(***************************************************************************)
(* What an evaluation does to the list it is given                         *)
(***************************************************************************)
\* the positions of the alternations of a bucket
AltIdx(bucket) == {i \in 1..Len(bucket) : IsAlternation(bucket[i])}

\* the bucket without the specifiers at the positions R, in order
RECURSIVE Without(_, _, _)
Without(bucket, R, i) ==
    IF i > Len(bucket) THEN << >>
    ELSE IF i \in R THEN Without(bucket, R, i + 1)
    ELSE << bucket[i] >> \o Without(bucket, R, i + 1)

\* the j-th smallest position of R
Nth(R, j) == CHOOSE r \in R : Cardinality({x \in R : x < r}) = j - 1

\* `after` is `before` with the alternations at the positions R taken out and
\* one alternative of each appended, in the order of R
ResolvedAt(before, after, R) ==
    LET kept == Without(before, R, 1)
    IN  /\ Len(after) = Len(before)
        /\ SubSeq(after, 1, Len(kept)) = kept
        /\ \A j \in 1..Cardinality(R) :
               \E k \in 1..Len(before[Nth(R, j)]) :
                   after[Len(kept) + j] = << before[Nth(R, j)][k] >>

\* C37: an evaluation changes its list only by replacing alternations with one
\* of their alternatives: the length is kept, the other specifiers stay, in
\* their order, and an alternation none of whose alternatives passes the test
\* stays; with no alternation that can be resolved the list is unchanged.
C37_OnlyAlternationsReplaced ==
    \A e \in Entries :
        e.fn \in EvaluatorNames =>
            /\ \E R \in SUBSET AltIdx(e.before) :
                   /\ ResolvedAt(e.before, e.after, R)
                   /\ \A i \in R : SatAlts(e.fn, e.before[i], Env, e.js) /= {}
            /\ (\A i \in AltIdx(e.before) : SatAlts(e.fn, e.before[i], Env, e.js) = {}) =>
                   e.after = e.before

\* is_bucket_installed or is_bucket_uptodate on ["a | b", "c"] resolved the
\* alternation to a: the list is ["c", "a"]
C37_Witness ==
    \E e \in Entries :
        /\ e.fn \in EvaluatorNames
        /\ e.before = << << Alt("a", ""), Alt("b", "") >>, Plain("c") >>
        /\ e.after = << Plain("c"), Plain("a") >>

\* C38: every call of a task's progress_callback is made while the worker runs
\* the task and before its installed_callback is called, and a task that found
\* its bucket up to date or failed while marking has none.
C38_ProgressWithinTask ==
    \A t \in Tasks :
        /\ \A i \in 1..Len(progress[t]) :
               /\ progress[t][i].state = "running"
               /\ ~progress[t][i].called_back
        /\ outcome[t] \in {"uptodate", "mark_failed"} => progress[t] = << >>
        /\ fut[t].state \in {"none", "pending"} => progress[t] = << >>

\* a task was dispatched after its commit reported the download and the
\* install, while another task found its bucket up to date
C38_Witness ==
    \E t, u \in Tasks :
        /\ ncb[t] > 0
        /\ Len(progress[t]) = 2
        /\ progress[t][1].step = STATUS_DOWNLOADING
        /\ progress[t][2].step = STATUS_INSTALLING
        /\ outcome[u] = "uptodate"

\* C39: installed_callback of a task is called only once install_bucket has
\* returned to the caller that submitted the task.
C39_CallbackAfterReturn ==
    [][\A t \in Tasks : ncb'[t] > ncb[t] => returned[t] /= << >>]_vars

====
